---- MODULE Spec2Model ----
(***************************************************************************)
(* The MIDI to OSC bridge of crates/raug/examples/midi-osc-server.py as a  *)
(* state machine: one action per statement group of main(), the device     *)
(* and the interrupt signal as environment actions.                        *)
(***************************************************************************)
EXTENDS Integers, Sequences, FiniteSets, TLC

VARIABLES
    args,          \* parsed command line: list_midi_devices, midi_device
    inputs,        \* ids of the input devices the platform can open
    default_id,    \* what pygame.midi.get_default_input_id() returns
    pc,            \* position of main()
    input_id,      \* the id passed to pygame.midi.Input
    midi_input,    \* the device handle: "none", "open", "closed"
    closes,        \* number of midi_input.close() calls made
    osc_client,    \* TRUE once SimpleUDPClient was constructed
    pending,       \* events waiting in the device, in arrival order
    history,       \* every event that reached the device so far, in arrival order
    midi_events,   \* rest of the batch the for loop iterates over
    event,         \* the datum of the current loop body
    dispatched,    \* number of loop bodies (lines 62-80) that ran to their end
    sent,          \* messages handed to the network, in order
    log,           \* logger records, in order
    exc,           \* exception in flight or handled: "none" or its kind
    exit_status,   \* process exit status, Running while it has not ended
    http           \* crates/raug-wasm/serve.py: the request in hand, the responses made

vars == <<args, inputs, default_id, pc, input_id, midi_input, closes, osc_client,
          pending, history, midi_events, event, dispatched, sent, log, exc, exit_status,
          http>>

None == -1
Running == -1

\* Bounds of the model.
MaxEvents == 2
MaxDeviceId == 1

\* read(10): the batch size of the loop.
MaxBatch == 10

DeviceIds == 0..MaxDeviceId

---------------------------------------------------------------------------
\* Bit operations on naturals, as Python computes them on non-negative ints.

RECURSIVE BitAnd(_, _)
BitAnd(a, b) ==
    IF a = 0 \/ b = 0 THEN 0
    ELSE (IF a % 2 = 1 /\ b % 2 = 1 THEN 1 ELSE 0) + 2 * BitAnd(a \div 2, b \div 2)

RECURSIVE BitOr(_, _)
BitOr(a, b) ==
    IF a = 0 THEN b
    ELSE IF b = 0 THEN a
    ELSE (IF a % 2 = 1 \/ b % 2 = 1 THEN 1 ELSE 0) + 2 * BitOr(a \div 2, b \div 2)

RECURSIVE ShiftLeft(_, _)
ShiftLeft(a, n) == IF n = 0 THEN a ELSE ShiftLeft(2 * a, n - 1)

---------------------------------------------------------------------------
\* The per-event translation of the loop body.

Msg(address, arguments, datum) == [addr |-> address, args |-> arguments, src |-> datum]

MidiMessage_NoChannel(e) == Msg("/midi", <<BitAnd(e.status, 240), e.note, e.velocity>>, e)

\* line 64: the raw pass-through
MidiMessage(e) == Msg("/midi", <<e.status, e.note, e.velocity>>, e)

PitchBendValue_Swapped(note, velocity) == BitOr(ShiftLeft(note, 7), velocity)

\* line 78
PitchBendValue(note, velocity) == BitOr(ShiftLeft(velocity, 7), note)

\* the match statement without the guard of line 68
SemanticMessages_NoAlias(e) ==
    LET nibble == BitAnd(e.status, 240) IN
    IF nibble = 144 THEN <<Msg("/note_on", <<e.note, e.velocity>>, e)>>
    ELSE IF nibble = 128 THEN <<Msg("/note_off", <<e.note, e.velocity>>, e)>>
    ELSE IF nibble = 176 THEN <<Msg("/control_change", <<e.note, e.velocity>>, e)>>
    ELSE IF nibble = 224
      THEN <<Msg("/pitch_bend", <<PitchBendValue(e.note, e.velocity)>>, e)>>
    ELSE << >>

\* the match statement with the guard of line 68 on the pattern 0x80 | 0x90
SemanticMessages_GuardOnBoth(e) ==
    LET nibble == BitAnd(e.status, 240) IN
    IF nibble \in {128, 144} /\ e.velocity > 0
      THEN <<Msg("/note_on", <<e.note, e.velocity>>, e)>>
    ELSE IF nibble \in {128, 144}
      THEN <<Msg("/note_off", <<e.note, e.velocity>>, e)>>
    ELSE IF nibble = 176 THEN <<Msg("/control_change", <<e.note, e.velocity>>, e)>>
    ELSE IF nibble = 224
      THEN <<Msg("/pitch_bend", <<PitchBendValue(e.note, e.velocity)>>, e)>>
    ELSE << >>

\* the match statement on status & 0xE0
SemanticMessages_WrongMask(e) ==
    LET nibble == BitAnd(e.status, 224) IN
    IF nibble = 144 /\ e.velocity > 0
      THEN <<Msg("/note_on", <<e.note, e.velocity>>, e)>>
    ELSE IF nibble \in {128, 144}
      THEN <<Msg("/note_off", <<e.note, e.velocity>>, e)>>
    ELSE IF nibble = 176 THEN <<Msg("/control_change", <<e.note, e.velocity>>, e)>>
    ELSE IF nibble = 224
      THEN <<Msg("/pitch_bend", <<PitchBendValue(e.note, e.velocity)>>, e)>>
    ELSE << >>

\* the match statement with the arguments of line 75 in the other order
SemanticMessages_SwappedCC(e) ==
    LET nibble == BitAnd(e.status, 240) IN
    IF nibble = 144 /\ e.velocity > 0
      THEN <<Msg("/note_on", <<e.note, e.velocity>>, e)>>
    ELSE IF nibble \in {128, 144}
      THEN <<Msg("/note_off", <<e.note, e.velocity>>, e)>>
    ELSE IF nibble = 176 THEN <<Msg("/control_change", <<e.velocity, e.note>>, e)>>
    ELSE IF nibble = 224
      THEN <<Msg("/pitch_bend", <<PitchBendValue(e.note, e.velocity)>>, e)>>
    ELSE << >>

\* the match statement on the status byte itself, without the mask of line 67
SemanticMessages_NoMask(e) ==
    LET nibble == e.status IN
    IF nibble = 144 /\ e.velocity > 0
      THEN <<Msg("/note_on", <<e.note, e.velocity>>, e)>>
    ELSE IF nibble \in {128, 144}
      THEN <<Msg("/note_off", <<e.note, e.velocity>>, e)>>
    ELSE IF nibble = 176 THEN <<Msg("/control_change", <<e.note, e.velocity>>, e)>>
    ELSE IF nibble = 224
      THEN <<Msg("/pitch_bend", <<PitchBendValue(e.note, e.velocity)>>, e)>>
    ELSE << >>

\* lines 67-80: the match statement; the sequence holds the message of the case
\* taken, and is empty when no case matches.
SemanticMessages(e) ==
    LET nibble == BitAnd(e.status, 240) IN
    IF nibble = 144 /\ e.velocity > 0
      THEN <<Msg("/note_on", <<e.note, e.velocity>>, e)>>
    ELSE IF nibble \in {128, 144}
      THEN <<Msg("/note_off", <<e.note, e.velocity>>, e)>>
    ELSE IF nibble = 176
      THEN <<Msg("/control_change", <<e.note, e.velocity>>, e)>>
    ELSE IF nibble = 224
      THEN <<Msg("/pitch_bend", <<PitchBendValue(e.note, e.velocity)>>, e)>>
    ELSE << >>

RECURSIVE Reverse(_)
Reverse(q) == IF q = << >> THEN << >> ELSE Append(Reverse(Tail(q)), Head(q))

\* read() with no limit on the batch
ReadBatch_Unbounded(q) == q

\* read() that empties the device queue whatever it returns
ReadRest_DropsAll(q) == << >>

ReadBatch_Reversed(q) == Reverse(SubSeq(q, 1, IF Len(q) < MaxBatch THEN Len(q) ELSE MaxBatch))

\* read(10): the events handed out, oldest first
ReadBatch(q) == SubSeq(q, 1, IF Len(q) < MaxBatch THEN Len(q) ELSE MaxBatch)

\* what read(10) leaves in the device
ReadRest(q) == SubSeq(q, Len(ReadBatch(q)) + 1, Len(q))

ExitAfter_NoExceptClause(e) == IF e = "none" THEN 0 ELSE 1

\* the status main() ends with when it leaves the try statement
ExitAfter(e) == IF e \in {"none", "KeyboardInterrupt"} THEN 0 ELSE 1

---------------------------------------------------------------------------
\* The events the device delivers: status, data1, data2 as pygame reports them.

Datum(s, n, v) == [status |-> s, note |-> n, velocity |-> v]

Datums ==
    { Datum(144, 60, 100), Datum(147, 61, 0), Datum(133, 62, 64),
      Datum(176, 7, 127), Datum(225, 128, 1), Datum(248, 0, 0) }

\* byte values at and next to the edges of the 7-bit and 8-bit ranges
ByteSamples == {0, 1, 60, 64, 127, 128, 255}

\* the event as the loop holds it: its bytes, and its place in the arrival order
Event(k, d) == [id |-> k, status |-> d.status, note |-> d.note, velocity |-> d.velocity]

NoEvent == [id |-> 0, status |-> 0, note |-> 0, velocity |-> 0]

TryPcs == {"poll", "read", "for", "send_midi", "match", "sleep"}

\* what the interpreter writes to stderr for an exception nothing catches
Traceback(kind) == "traceback: " \o kind

\* serve.py before its first request
NoRequest == [method |-> "", target |-> "", served |-> << >>]

---------------------------------------------------------------------------
Init ==
    /\ args \in [list_midi_devices : BOOLEAN, midi_device : {None} \cup 0..(MaxDeviceId + 1)]
    /\ inputs \in SUBSET DeviceIds
    /\ default_id \in (IF inputs = {} THEN {-1} ELSE inputs)
    /\ pc = "init"
    /\ input_id = None
    /\ midi_input = "none"
    /\ closes = 0
    /\ osc_client = FALSE
    /\ pending = << >>
    /\ history = << >>
    /\ midi_events = << >>
    /\ event = NoEvent
    /\ dispatched = 0
    /\ sent = << >>
    /\ log = << >>
    /\ exc = "none"
    /\ exit_status = Running
    /\ http = NoRequest

\* lines 31-38
ListDevices ==
    /\ pc = "init"
    /\ args.list_midi_devices
    /\ log' = log \o [i \in 1..Cardinality(inputs) |-> "info: ID"]
    /\ pc' = "exited"
    /\ exit_status' = 0
    /\ UNCHANGED <<http, args, inputs, default_id, input_id, midi_input, closes, osc_client,
                   pending, history, midi_events, event, dispatched, sent, exc>>

\* lines 40-49 without the test of line 45
SelectDevice_NoDefaultCheck ==
    /\ pc = "init"
    /\ ~args.list_midi_devices
    /\ input_id' = IF args.midi_device = None THEN default_id ELSE args.midi_device
    /\ pc' = "open"
    /\ UNCHANGED <<http, args, inputs, default_id, midi_input, closes, osc_client,
                   pending, history, midi_events, event, dispatched, sent, exc,
                   log, exit_status>>

\* lines 40-49 reached in listing mode too (no sys.exit at line 38)
SelectDevice_IgnoresList ==
    /\ pc = "init"
    /\ IF args.midi_device = None /\ default_id = -1
         THEN /\ log' = Append(log, "error: No MIDI input device found.")
              /\ pc' = "exited"
              /\ exit_status' = 1
              /\ UNCHANGED input_id
         ELSE /\ input_id' = IF args.midi_device = None THEN default_id
                                                        ELSE args.midi_device
              /\ pc' = "open"
              /\ UNCHANGED <<log, exit_status>>
    /\ UNCHANGED <<http, args, inputs, default_id, midi_input, closes, osc_client,
                   pending, history, midi_events, event, dispatched, sent, exc>>

\* lines 40-49
SelectDevice ==
    /\ pc = "init"
    /\ ~args.list_midi_devices
    /\ IF args.midi_device = None
         THEN IF default_id = -1
                THEN /\ log' = Append(log, "error: No MIDI input device found.")
                     /\ pc' = "exited"
                     /\ exit_status' = 1
                     /\ UNCHANGED input_id
                ELSE /\ input_id' = default_id
                     /\ pc' = "open"
                     /\ UNCHANGED <<log, exit_status>>
         ELSE /\ input_id' = args.midi_device
              /\ pc' = "open"
              /\ UNCHANGED <<log, exit_status>>
    /\ UNCHANGED <<http, args, inputs, default_id, midi_input, closes, osc_client,
                   pending, history, midi_events, event, dispatched, sent, exc>>

\* lines 51-52 with no device opened: main() goes on without a handle
OpenDevice_NotOpened ==
    /\ pc = "open"
    /\ log' = Append(log, "info: Using MIDI input device ID")
    /\ pc' = "client"
    /\ UNCHANGED <<http, args, inputs, default_id, input_id, midi_input, closes, osc_client,
                   pending, history, midi_events, event, dispatched, sent,
                   exc, exit_status>>

\* lines 51-52 with an open that takes any id
OpenDevice_Unchecked ==
    /\ pc = "open"
    /\ midi_input' = "open"
    /\ log' = Append(log, "info: Using MIDI input device ID")
    /\ pc' = "client"
    /\ UNCHANGED <<http, args, inputs, default_id, input_id, closes, osc_client,
                   pending, history, midi_events, event, dispatched, sent,
                   exc, exit_status>>

\* lines 51-52: pygame.midi.Input raises for an id that is no input device
OpenDevice ==
    /\ pc = "open"
    /\ IF input_id \in inputs
         THEN /\ midi_input' = "open"
              /\ log' = Append(log, "info: Using MIDI input device ID")
              /\ pc' = "client"
              /\ UNCHANGED <<exc, exit_status>>
         ELSE /\ exc' = "MidiException"
              /\ log' = Append(log, Traceback("MidiException"))
              /\ pc' = "exited"
              /\ exit_status' = 1
              /\ UNCHANGED midi_input
    /\ UNCHANGED <<http, args, inputs, default_id, input_id, closes, osc_client,
                   pending, history, midi_events, event, dispatched, sent>>

\* line 54: outside the try statement; the constructor resolves the address and
\* makes the socket, and either can raise
CreateClient ==
    /\ pc = "client"
    /\ \/ /\ osc_client' = TRUE
          /\ pc' = "poll"
          /\ UNCHANGED <<exc, exit_status, log>>
       \/ /\ exc' = "gaierror"
          /\ log' = Append(log, Traceback("gaierror"))
          /\ pc' = "exited"
          /\ exit_status' = 1
          /\ UNCHANGED osc_client
    /\ UNCHANGED <<http, args, inputs, default_id, input_id, midi_input, closes,
                   pending, history, midi_events, event, dispatched, sent>>

\* an exception raised inside the try statement that is no KeyboardInterrupt:
\* no except clause matches, the finally clause runs
Raise(kind) ==
    /\ exc' = kind
    /\ pc' = "finally"

\* line 59
Poll ==
    /\ pc = "poll"
    /\ \/ /\ pc' = IF Len(pending) > 0 THEN "read" ELSE "sleep"
          /\ UNCHANGED exc
       \/ Raise("MidiException")
    /\ UNCHANGED <<http, args, inputs, default_id, input_id, midi_input, closes, osc_client,
                   pending, history, midi_events, event, dispatched, sent, log,
                   exit_status>>

\* line 60
Read ==
    /\ pc = "read"
    /\ \/ /\ midi_events' = ReadBatch(pending)
          /\ pending' = ReadRest(pending)
          /\ pc' = "for"
          /\ UNCHANGED exc
       \/ /\ Raise("MidiException")
          /\ UNCHANGED <<midi_events, pending>>
    /\ UNCHANGED <<http, args, inputs, default_id, input_id, midi_input, closes, osc_client,
                   history, event, dispatched, sent, log, exit_status>>

\* lines 61-63: the for statement takes the next event of the batch, or ends
NextEvent ==
    /\ pc = "for"
    /\ IF midi_events = << >>
         THEN /\ pc' = "sleep"
              /\ UNCHANGED <<midi_events, event>>
         ELSE /\ event' = Head(midi_events)
              /\ midi_events' = Tail(midi_events)
              /\ pc' = "send_midi"
    /\ UNCHANGED <<http, args, inputs, default_id, input_id, midi_input, closes, osc_client,
                   pending, history, dispatched, sent, log, exc, exit_status>>

\* lines 64-65
SendMidi ==
    /\ pc = "send_midi"
    /\ \/ /\ sent' = Append(sent, MidiMessage(event))
          /\ log' = Append(log, "info: /midi")
          /\ pc' = "match"
          /\ UNCHANGED exc
       \/ /\ Raise("OSError")
          /\ UNCHANGED <<sent, log>>
    /\ UNCHANGED <<http, args, inputs, default_id, input_id, midi_input, closes, osc_client,
                   pending, history, midi_events, event, dispatched, exit_status>>

\* lines 67-80 with the semantic message put on the wire ahead of the /midi
\* message of the same event
SendSemantic_BeforeMidi ==
    /\ pc = "match"
    /\ \/ /\ sent' = SubSeq(sent, 1, Len(sent) - 1) \o SemanticMessages(event)
                         \o <<sent[Len(sent)]>>
          /\ log' = log \o [i \in 1..Len(SemanticMessages(event)) |->
                               "info: " \o SemanticMessages(event)[i].addr]
          /\ dispatched' = dispatched + 1
          /\ pc' = "for"
          /\ UNCHANGED exc
       \/ /\ SemanticMessages(event) # << >>
          /\ Raise("OSError")
          /\ UNCHANGED <<sent, log, dispatched>>
    /\ UNCHANGED <<http, args, inputs, default_id, input_id, midi_input, closes, osc_client,
                   pending, history, midi_events, event, exit_status>>

\* lines 67-80
SendSemantic ==
    /\ pc = "match"
    /\ \/ /\ sent' = sent \o SemanticMessages(event)
          /\ log' = log \o [i \in 1..Len(SemanticMessages(event)) |->
                               "info: " \o SemanticMessages(event)[i].addr]
          /\ dispatched' = dispatched + 1
          /\ pc' = "for"
          /\ UNCHANGED exc
       \/ /\ SemanticMessages(event) # << >>
          /\ Raise("OSError")
          /\ UNCHANGED <<sent, log, dispatched>>
    /\ UNCHANGED <<http, args, inputs, default_id, input_id, midi_input, closes, osc_client,
                   pending, history, midi_events, event, exit_status>>

\* line 82
Sleep ==
    /\ pc = "sleep"
    /\ pc' = "poll"
    /\ UNCHANGED <<http, args, inputs, default_id, input_id, midi_input, closes, osc_client,
                   pending, history, midi_events, event, dispatched, sent, log, exc,
                   exit_status>>

\* lines 83-84
Except ==
    /\ pc = "except"
    /\ log' = Append(log, "info: Shutting down server.")
    /\ pc' = "finally"
    /\ UNCHANGED <<http, args, inputs, default_id, input_id, midi_input, closes, osc_client,
                   pending, history, midi_events, event, dispatched, sent, exc,
                   exit_status>>

\* lines 85-88, then the end of main()
Finally ==
    /\ pc = "finally"
    /\ midi_input' = "closed"
    /\ closes' = closes + 1
    /\ log' = Append(log, "info: Server closed.")
               \o (IF exc \in {"none", "KeyboardInterrupt"} THEN << >>
                                                              ELSE <<Traceback(exc)>>)
    /\ pc' = "exited"
    /\ exit_status' = ExitAfter(exc)
    /\ UNCHANGED <<http, args, inputs, default_id, input_id, osc_client,
                   pending, history, midi_events, event, dispatched, sent, exc>>

\* where a KeyboardInterrupt raised at position p takes main(): the except clause
\* of line 83 for a statement of the try block
InterruptTarget(p) == IF p \in TryPcs THEN "except" ELSE "exited"

\* SIGINT (delivered at most once, after the device was opened) while main() is
\* inside the try statement: Python raises KeyboardInterrupt at the statement
\* being executed
Interrupt ==
    /\ exc = "none"
    /\ pc \in TryPcs
    /\ pc' = InterruptTarget(pc)
    /\ exc' = "KeyboardInterrupt"
    /\ UNCHANGED <<http, args, inputs, default_id, input_id, midi_input, closes, osc_client,
                   pending, history, midi_events, event, dispatched, sent, log,
                   exit_status>>

\* SIGINT at line 54, between the open and the try statement: nothing catches
\* the KeyboardInterrupt and the interpreter ends
InterruptBeforeTry ==
    /\ exc = "none"
    /\ pc = "client"
    /\ pc' = InterruptTarget(pc)
    /\ exc' = "KeyboardInterrupt"
    /\ exit_status' = 130
    /\ log' = Append(log, Traceback("KeyboardInterrupt"))
    /\ UNCHANGED <<http, args, inputs, default_id, input_id, midi_input, closes, osc_client,
                   pending, history, midi_events, event, dispatched, sent>>

\* the device receives an event while the handle is open
Arrive ==
    /\ midi_input = "open"
    /\ pc # "exited"
    /\ Len(history) < MaxEvents
    /\ \E d \in Datums :
         /\ pending' = Append(pending, Event(Len(history) + 1, d))
         /\ history' = Append(history, d)
    /\ UNCHANGED <<http, args, inputs, default_id, pc, input_id, midi_input, closes, osc_client,
                   midi_events, event, dispatched, sent, log, exc, exit_status>>

\* the steps of the interpreter
Step ==
    \/ ListDevices \/ SelectDevice \/ OpenDevice \/ CreateClient
    \/ Poll \/ Read \/ NextEvent \/ SendMidi \/ SendSemantic \/ Sleep
    \/ Except \/ Finally

Next == Step \/ Interrupt \/ InterruptBeforeTry \/ Arrive

Spec == Init /\ [][Next]_vars

---------------------------------------------------------------------------
\* States of the loop after a start with the default device: at position p, with
\* the events of first and second read as one batch and none dispatched yet.

LoopState(p, first, second) ==
    /\ args = [list_midi_devices |-> FALSE, midi_device |-> None]
    /\ inputs = {0}
    /\ default_id = 0
    /\ pc = p
    /\ input_id = 0
    /\ midi_input = "open"
    /\ closes = 0
    /\ osc_client = TRUE
    /\ pending = << >>
    /\ history = first \o second
    /\ midi_events = [k \in DOMAIN history |-> Event(k, history[k])]
    /\ event = NoEvent
    /\ dispatched = 0
    /\ sent = << >>
    /\ log = <<"info: Using MIDI input device ID">>
    /\ exc = "none"
    /\ exit_status = Running
    /\ http = NoRequest

\* The loop from its first poll on.

RunInit == LoopState("poll", << >>, << >>)

RunStep ==
    \/ Poll \/ Read \/ NextEvent \/ SendMidi \/ SendSemantic \/ Sleep
    \/ Except \/ Finally

RunNext == RunStep \/ Interrupt \/ Arrive

\* the interpreter keeps executing main() while it has a statement to execute
RunSpec == RunInit /\ [][RunNext]_vars /\ WF_vars(RunStep)

\* The loop with a batch of two events in hand, the first with any status byte.

DecodeInit ==
    \E s \in 0..255, n \in ByteSamples, v \in ByteSamples :
        LoopState("for", <<Datum(s, n, v)>>, <<Datum(144, 60, 100)>>)

DecodeNext ==
    \/ Poll \/ NextEvent \/ SendMidi \/ SendSemantic \/ Sleep
    \/ Except \/ Finally \/ Interrupt

DecodeSpec == DecodeInit /\ [][DecodeNext]_vars

\* The loop with one pitch-bend event in hand, with any two data bytes.

BendInit ==
    \E s \in {224, 239}, n \in 0..255, v \in 0..255 :
        LoopState("for", <<Datum(s, n, v)>>, << >>)

BendNext == NextEvent \/ SendMidi \/ SendSemantic

BendSpec == BendInit /\ [][BendNext]_vars

---------------------------------------------------------------------------
\* What the properties speak of.

\* status & 0xF0, by arithmetic
HighNibble(status) == (status \div 16) * 16

\* the places in sent of the /midi message(s) of the k-th event of the device
MidiOf(k) == {i \in DOMAIN sent : sent[i].src.id = k /\ sent[i].addr = "/midi"}

\* the places in sent of the semantic message(s) of the k-th event
SemanticOf(k) == {i \in DOMAIN sent : sent[i].src.id = k /\ sent[i].addr # "/midi"}

\* the events that were read from the device
ReadSoFar == 1..(Len(history) - Len(pending))

\* the interrupt was delivered while main() was in the loop
Stopping == exc = "KeyboardInterrupt" /\ osc_client

Stopped == pc = "exited" /\ midi_input = "closed"

---------------------------------------------------------------------------
\* C1: an event with status high nibble 0x90 gets /note_on [note, velocity] as
\* its semantic message iff its velocity is above 0 and /note_off [note, velocity]
\* otherwise, whatever its channel and note; no /note_on with velocity 0 is sent.
C1_NoteOnIffVelocityPositive ==
    /\ \A i \in DOMAIN sent : sent[i].addr = "/note_on" => sent[i].args[2] > 0
    /\ \A k \in DOMAIN history :
         HighNibble(history[k].status) = 144 =>
           /\ \A i \in SemanticOf(k) :
                /\ sent[i].args = <<history[k].note, history[k].velocity>>
                /\ sent[i].addr = IF history[k].velocity > 0 THEN "/note_on" ELSE "/note_off"
           /\ k <= dispatched => Cardinality(SemanticOf(k)) = 1

\* a note-on of channel 15 with velocity 0 went out as /note_off, and a note-on
\* with velocity 100 as /note_on
C1_Witness ==
    /\ \E i \in DOMAIN sent :
         /\ sent[i].src.status = 159 /\ sent[i].src.velocity = 0
         /\ sent[i].addr = "/note_off" /\ sent[i].args = <<127, 0>>
    /\ \E i \in DOMAIN sent : sent[i].addr = "/note_on" /\ sent[i].args = <<60, 100>>

\* C2: every event whose loop body sent its pass-through has exactly one /midi
\* message, with the three bytes the device delivered, whatever case the match
\* statement takes for it.
C2_OneMidiPerDatum ==
    \A k \in DOMAIN history :
      /\ Cardinality(MidiOf(k)) <= 1
      /\ (k <= dispatched \/ (k = event.id /\ pc = "match") \/ SemanticOf(k) # {})
           => Cardinality(MidiOf(k)) = 1
      /\ \A i \in MidiOf(k) :
           sent[i].args = <<history[k].status, history[k].note, history[k].velocity>>

\* the pass-through of a note-on of channel 3 and of a system message both went out
C2_Witness ==
    /\ \E i \in DOMAIN sent : sent[i].addr = "/midi" /\ sent[i].args = <<147, 61, 0>>
    /\ \E i \in DOMAIN sent : sent[i].addr = "/midi" /\ sent[i].args = <<248, 0, 0>>
    /\ dispatched = 2

\* C3: messages go out in the order their events arrived at the device, each
\* message stems from one event, and what is still to be dispatched is later
\* than everything sent.
C3_ArrivalOrderPreserved ==
    /\ \A i, j \in DOMAIN sent : i < j => sent[i].src.id <= sent[j].src.id
    /\ \A i \in DOMAIN sent :
         /\ sent[i].src.id \in DOMAIN history
         /\ sent[i].src = Event(sent[i].src.id, history[sent[i].src.id])
    /\ \A i \in DOMAIN midi_events :
         /\ midi_events[i].id > event.id
         /\ \A j \in DOMAIN midi_events : i < j => midi_events[i].id < midi_events[j].id
         /\ \A j \in DOMAIN pending : midi_events[i].id < pending[j].id
    /\ \A i, j \in DOMAIN pending : i < j => pending[i].id < pending[j].id

\* two different events have both been dispatched, and nothing is left to do
C3_Witness ==
    /\ Len(history) = 2 /\ history[1] # history[2]
    /\ pending = << >> /\ midi_events = << >>
    /\ MidiOf(1) # {} /\ MidiOf(2) # {}
    /\ Cardinality({i \in DOMAIN log : log[i] = "info: /midi"}) = 2
    /\ dispatched = 2 /\ pc = "for"

\* C4: once opened, the handle is closed exactly once before the process ends,
\* on every exit path after the open, and it is open all through the loop.
C4_ClosedOnEveryExit ==
    /\ (pc = "exited" /\ input_id \in inputs) => (midi_input = "closed" /\ closes = 1)
    /\ pc \in TryPcs => midi_input = "open"
    /\ closes <= 1

\* C5: a failed send_message leaves the loop running and the handle open.
C5_SendFailureKeepsRunning ==
    exc = "OSError" => (pc \in TryPcs /\ midi_input = "open")

\* C6: an interrupt delivered in the loop takes main() out of the loop at once,
\* it is handled rather than propagated, and the process then ends with the
\* handle closed and status 0.
C6_InterruptStopsCleanly ==
    /\ [](Stopping => pc \in {"except", "finally", "exited"})
    /\ [](Stopping /\ pc = "exited" => midi_input = "closed" /\ closes = 1 /\ exit_status = 0)
    /\ [][(pc \in TryPcs /\ exc = "none" /\ exc' = "KeyboardInterrupt")
            => (pc' = "except" /\ midi_input' = "open")]_vars
    /\ Stopping ~> (Stopped /\ exit_status = 0)

\* an interrupt in the middle of a batch has ended the process with status 0
C6_Witness ==
    Stopping /\ Stopped /\ exit_status = 0 /\ midi_events # << >>

\* C7: after an interrupt no poll or read happens, and every event that was
\* read from the device has its /midi and its semantic message sent before the
\* handle is closed.
C7_InFlightDispatchFinishes ==
    (Stopping /\ midi_input = "closed") =>
       \A k \in ReadSoFar :
         /\ Cardinality(MidiOf(k)) = 1
         /\ Cardinality(SemanticOf(k))
              = Len(SemanticMessages(Event(k, history[k])))

\* (data2 << 7) | data1 for two bytes, by arithmetic: bit 7 of data1 falls on
\* bit 0 of data2
ShiftedOr(data1, data2) ==
    data2 * 128 + (data1 % 128) + (IF data1 >= 128 /\ data2 % 2 = 0 THEN 128 ELSE 0)

\* C8 as stated: for all bytes data1 and data2 of a 0xE0 event the argument of
\* /pitch_bend is (data2 << 7) | data1 and lies in 0..16383.
C8_PitchBendWithin14Bits ==
    \A i \in DOMAIN sent :
      sent[i].addr = "/pitch_bend" =>
        /\ sent[i].args = <<ShiftedOr(sent[i].src.note, sent[i].src.velocity)>>
        /\ sent[i].args[1] \in 0..16383

\* C8, amended: for all bytes data1 and data2 of a 0xE0 event the argument of
\* /pitch_bend is (data2 << 7) | data1; it lies in 0..16383 when both bytes are
\* at most 127 and in 0..32767 in any case; data1 = 0, data2 = 0x40 gives 8192.
C8_PitchBendValue ==
    /\ \A i \in DOMAIN sent :
         sent[i].addr = "/pitch_bend" =>
           LET d == sent[i].src IN
           /\ HighNibble(d.status) = 224
           /\ sent[i].args = <<ShiftedOr(d.note, d.velocity)>>
           /\ sent[i].args[1] \in 0..32767
           /\ (d.note <= 127 /\ d.velocity <= 127) => sent[i].args[1] \in 0..16383
           /\ (d.note = 0 /\ d.velocity = 64) => sent[i].args[1] = 8192
    /\ \A k \in DOMAIN history :
         (HighNibble(history[k].status) = 224 /\ k <= dispatched)
            => \E i \in SemanticOf(k) : SemanticOf(k) = {i} /\ sent[i].addr = "/pitch_bend"

\* the centre position went out as 8192
C8_Witness ==
    \E i \in DOMAIN sent :
      /\ sent[i].src.note = 0 /\ sent[i].src.velocity = 64
      /\ sent[i].addr = "/pitch_bend" /\ sent[i].args = <<8192>>

Recognized(status) == HighNibble(status) \in {128, 144, 176, 224}

\* C9: an event whose status high nibble is none of 0x80, 0x90, 0xB0, 0xE0 gets
\* its /midi message and no other; the match statement sends nothing and raises
\* nothing for it, and the loop goes on to the next event.
C9_UnrecognizedOnlyPassThrough ==
    /\ [](\A k \in DOMAIN history :
            ~Recognized(history[k].status) =>
              /\ SemanticOf(k) = {}
              /\ k <= dispatched => Cardinality(MidiOf(k)) = 1
              /\ (exc = "OSError" /\ event.id = k) => MidiOf(k) = {})
    /\ [][(pc = "match" /\ ~Recognized(event.status) /\ pc' # pc)
            => /\ sent' = sent
               /\ \/ pc' = "for" /\ exc' = "none" /\ dispatched' = dispatched + 1
                  \/ pc' = "except" /\ exc' = "KeyboardInterrupt"]_vars

\* a system message went out as /midi alone, and the event after it was dispatched
C9_Witness ==
    /\ history[1].status = 255
    /\ Len(sent) = 3
    /\ sent[1].addr = "/midi" /\ sent[1].src.id = 1
    /\ sent[2].src.id = 2 /\ sent[3].src.id = 2

\* C10: an event with status high nibble 0x80 gets /note_off [note, velocity] as
\* its semantic message, whatever its velocity and channel, and never /note_on.
C10_NoteOffStatusAlwaysNoteOff ==
    \A k \in DOMAIN history :
      HighNibble(history[k].status) = 128 =>
        /\ \A i \in SemanticOf(k) :
             /\ sent[i].addr = "/note_off"
             /\ sent[i].args = <<history[k].note, history[k].velocity>>
        /\ k <= dispatched => Cardinality(SemanticOf(k)) = 1

\* a note-off of channel 15 with velocity 0 went out as /note_off
C10_Witness ==
    \E i \in DOMAIN sent :
      /\ sent[i].src.status = 143 /\ sent[i].src.velocity = 0
      /\ sent[i].addr = "/note_off" /\ sent[i].args = <<128, 0>>

\* C11: the semantic message of a recognized event goes out right after the
\* /midi message of that event, with nothing in between: (0x90, 60, 100) gives
\* /midi [144, 60, 100] then /note_on [60, 100], and (0x90, 60, 0) gives
\* /midi [144, 60, 0] then /note_off [60, 0].
C11_MidiThenSemantic ==
    /\ \A i \in DOMAIN sent :
         sent[i].addr # "/midi" =>
           /\ i > 1
           /\ sent[i - 1].addr = "/midi"
           /\ sent[i - 1].src.id = sent[i].src.id
    /\ \A k \in DOMAIN history :
         (Recognized(history[k].status) /\ k <= dispatched) =>
           \E i \in MidiOf(k) : i + 1 \in SemanticOf(k)
    /\ \A k \in DOMAIN history :
         (history[k] = Datum(144, 60, 100) /\ k <= dispatched) =>
           \E i \in DOMAIN sent :
             /\ i + 1 \in DOMAIN sent
             /\ sent[i].addr = "/midi" /\ sent[i].args = <<144, 60, 100>>
             /\ sent[i + 1].addr = "/note_on" /\ sent[i + 1].args = <<60, 100>>
    /\ \A k \in DOMAIN history :
         (history[k] = Datum(144, 60, 0) /\ k <= dispatched) =>
           \E i \in DOMAIN sent :
             /\ i + 1 \in DOMAIN sent
             /\ sent[i].addr = "/midi" /\ sent[i].args = <<144, 60, 0>>
             /\ sent[i + 1].addr = "/note_off" /\ sent[i + 1].args = <<60, 0>>

\* both examples went out, one after the other
C11_Witness ==
    /\ Len(sent) = 4
    /\ sent[1].addr = "/midi" /\ sent[1].args = <<144, 60, 0>>
    /\ sent[2].addr = "/note_off" /\ sent[2].args = <<60, 0>>
    /\ sent[3].addr = "/midi" /\ sent[3].args = <<144, 60, 100>>
    /\ sent[4].addr = "/note_on" /\ sent[4].args = <<60, 100>>

\* the run is not a listing, names no device, and the platform has no default
NoDefaultDevice ==
    ~args.list_midi_devices /\ args.midi_device = None /\ default_id = -1

\* the run is not a listing and names an id that is no input device
DeviceNotFound ==
    ~args.list_midi_devices /\ args.midi_device # None /\ args.midi_device \notin inputs

\* no handle, no UDP client, nothing on the network
NothingStarted ==
    midi_input = "none" /\ closes = 0 /\ ~osc_client /\ sent = << >> /\ history = << >>

\* C12: with --midi-device unset and no default input device, the process logs
\* an error and exits with status 1; it never opens a handle, makes the UDP
\* client, sends a message or enters the loop.
C12_NoDefaultDeviceExitsOne ==
    NoDefaultDevice =>
      /\ NothingStarted
      /\ pc \in {"init", "exited"}
      /\ pc = "init" => (exit_status = Running /\ log = << >>)
      /\ pc = "exited" =>
           (exit_status = 1 /\ log = <<"error: No MIDI input device found.">>)

\* such a run has ended
C12_Witness ==
    NoDefaultDevice /\ pc = "exited" /\ exit_status = 1 /\ inputs = {}

C14_ListingNeverOpens ==
    args.list_midi_devices =>
      /\ NothingStarted
      /\ pc \in {"init", "exited"}
      /\ exc = "none"
      /\ exit_status = IF pc = "exited" THEN 0 ELSE Running
      /\ \A i \in DOMAIN log : log[i] = "info: ID"

\* a listing with no device at all and a --midi-device that names none has ended
C14_Witness ==
    /\ args.list_midi_devices /\ args.midi_device # None
    /\ inputs = {} /\ default_id = -1
    /\ pc = "exited" /\ exit_status = 0

\* C15: an event with status high nibble 0xB0 gets, besides its /midi message,
\* exactly one semantic message, /control_change [data1, data2]; no event gets
\* more than one semantic message.
C15_ControlChange ==
    \A k \in DOMAIN history :
      /\ Cardinality(SemanticOf(k)) <= 1
      /\ HighNibble(history[k].status) = 176 =>
           /\ \A i \in SemanticOf(k) :
                /\ sent[i].addr = "/control_change"
                /\ sent[i].args = <<history[k].note, history[k].velocity>>
           /\ k <= dispatched =>
                (Cardinality(SemanticOf(k)) = 1 /\ Cardinality(MidiOf(k)) = 1)

\* controller 1 with value 255 on channel 15 went out as /control_change [1, 255]
C15_Witness ==
    /\ Len(sent) >= 2
    /\ sent[1].addr = "/midi" /\ sent[1].args = <<191, 1, 255>>
    /\ sent[2].addr = "/control_change" /\ sent[2].args = <<1, 255>>

---------------------------------------------------------------------------
\* crates/raug-wasm/serve.py: the development file server.  Handler inherits
\* the request handling of SimpleHTTPRequestHandler, whose every response ends
\* its header section through self.end_headers().

MaxRequests == 2

Methods == {"GET", "HEAD", "POST", "OPTIONS"}

\* what a request can name: a file, nothing, a directory without the final slash
Targets == {"file", "missing", "directory"}

midi_vars == <<args, inputs, default_id, pc, input_id, midi_input, closes, osc_client,
               pending, history, midi_events, event, dispatched, sent, log, exc,
               exit_status>>

\* lines 12-16
CorsHeaders ==
    << <<"Access-Control-Allow-Origin", "*">>,
       <<"Access-Control-Allow-Methods", "GET, POST, OPTIONS">>,
       <<"Access-Control-Allow-Headers", "Content-Type, Authorization">>,
       <<"Cross-Origin-Embedder-Policy", "require-corp">>,
       <<"Cross-Origin-Opener-Policy", "same-origin">> >>

\* lines 19-21
NoCacheHeaders ==
    << <<"Cache-Control", "no-store, no-cache, must-revalidate, max-age=0">>,
       <<"Pragma", "no-cache">>,
       <<"Expires", "0">> >>

end_headers_NotOverridden(headers) == headers

\* lines 10-23: the headers of the response once its header section is closed
end_headers(headers) == headers \o CorsHeaders \o NoCacheHeaders

\* send_response(code): the status line and the two headers every response starts with
send_response(code) ==
    [status |-> code, headers |-> << <<"Server", "SimpleHTTP">>, <<"Date", "now">> >>,
     body |-> FALSE]

send_header(r, name, value) == [r EXCEPT !.headers = Append(@, <<name, value>>)]

\* send_error(code) of the base class: an error page, not written for HEAD
send_error(code, method) ==
    LET r0 == send_response(code)
        r1 == send_header(r0, "Connection", "close")
        r2 == send_header(r1, "Content-Type", "text/html;charset=utf-8")
        r3 == send_header(r2, "Content-Length", "n")
    IN  [r3 EXCEPT !.headers = end_headers(@), !.body = (method # "HEAD")]

\* send_head() of the base class, followed by the copy of the file for GET
send_head(target, method) ==
    IF target = "missing" THEN send_error(404, method)
    ELSE IF target = "directory"
      THEN LET r0 == send_response(301)
               r1 == send_header(r0, "Location", "target/")
               r2 == send_header(r1, "Content-Length", "0")
           IN  [r2 EXCEPT !.headers = end_headers(@)]
    ELSE LET r0 == send_response(200)
             r1 == send_header(r0, "Content-type", "guessed")
             r2 == send_header(r1, "Content-Length", "n")
             r3 == send_header(r2, "Last-Modified", "mtime")
         IN  [r3 EXCEPT !.headers = end_headers(@), !.body = (method = "GET")]

\* the response r answers the request in hand, and the handler is free again
Respond(r) ==
    /\ http' = [method |-> "", target |-> "",
                served |-> Append(http.served,
                                  [method |-> http.method, target |-> http.target,
                                   status |-> r.status, headers |-> r.headers,
                                   body |-> r.body])]
    /\ UNCHANGED midi_vars

\* server.serve_forever(): a request with an HTTP/1.x request line comes in
Receive ==
    /\ http.method = ""
    /\ Len(http.served) < MaxRequests
    /\ \E m \in Methods, t \in Targets :
         http' = [http EXCEPT !.method = m, !.target = t]
    /\ UNCHANGED midi_vars

\* lines 25-28
do_OPTIONS ==
    /\ http.method = "OPTIONS"
    /\ Respond([send_response(200) EXCEPT !.headers = end_headers(@)])

\* do_GET of the base class
do_GET ==
    /\ http.method = "GET"
    /\ Respond(send_head(http.target, "GET"))

\* do_HEAD of the base class
do_HEAD ==
    /\ http.method = "HEAD"
    /\ Respond(send_head(http.target, "HEAD"))

\* a method Handler has no do_ method for: send_error(501)
Unsupported ==
    /\ http.method \in Methods \ {"GET", "HEAD", "OPTIONS"}
    /\ Respond(send_error(501, http.method))

ServeInit ==
    /\ Init
    /\ args = [list_midi_devices |-> FALSE, midi_device |-> None]
    /\ inputs = {}

ServeNext == Receive \/ do_OPTIONS \/ do_GET \/ do_HEAD \/ Unsupported

ServeSpec == ServeInit /\ [][ServeNext]_vars

\* the header name: value is on the response r
HasHeader(r, name, value) == \E i \in DOMAIN r.headers : r.headers[i] = <<name, value>>

---------------------------------------------------------------------------
\* The loop under a burst of events: more events than one read(10) returns can
\* be pending at once.  One datum is enough here, the events differ by arrival.

MaxPending == 12

DrainDatums == {Datum(144, 60, 100)}

\* the device receives an event of the burst while the handle is open
Flood ==
    /\ midi_input = "open"
    /\ pc # "exited"
    /\ Len(history) < MaxPending
    /\ \E d \in DrainDatums :
         /\ pending' = Append(pending, Event(Len(history) + 1, d))
         /\ history' = Append(history, d)
    /\ UNCHANGED <<http, args, inputs, default_id, pc, input_id, midi_input, closes,
                   osc_client, midi_events, event, dispatched, sent, log, exc,
                   exit_status>>

DrainNext == RunStep \/ Interrupt \/ Flood

\* the interpreter keeps executing main() while it has a statement to execute
DrainSpec == RunInit /\ [][DrainNext]_vars /\ WF_vars(RunStep)

\* the step takes main() to position p
Enters(p) == pc # p /\ pc' = p

\* C17 as stated: the sleep is reached only from a poll that reported nothing
\* pending, so an iteration that read a batch goes to the next poll without
\* sleeping.
C17_SleepOnlyWhenIdle == [][Enters("sleep") => (pc = "poll" /\ pending = << >>)]_vars

\* C17, amended: each iteration polls once; the read happens only after a poll
\* that reported pending events and returns 1..10 of them, the oldest first;
\* the sleep ends every iteration, the one that dispatched a batch as well as
\* the one that found nothing, and the next poll comes only after the sleep.
C17_PollReadSleepEveryIteration ==
    [][ /\ Enters("read") => (pc = "poll" /\ pending # << >>)
        /\ (pc = "poll" /\ Enters("sleep")) => pending = << >>
        /\ (pc = "read" /\ Enters("for")) =>
              /\ Len(midi_events') \in 1..MaxBatch
              /\ pending = midi_events' \o pending'
        /\ Enters("sleep") => (pc = "poll" \/ (pc = "for" /\ midi_events = << >>))
        /\ (pc = "for" /\ midi_events = << >> /\ pc' # pc) => pc' \in {"sleep", "except"}
        /\ Enters("poll") => pc = "sleep"
      ]_vars

\* the loop sleeps after the dispatch of a full batch, with events still pending
C17_Witness == pc = "sleep" /\ dispatched = MaxBatch /\ pending # << >>

\* the /midi messages sent so far
MidiSent == SelectSeq(sent, LAMBDA m : m.addr = "/midi")

---------------------------------------------------------------------------
\* The loop with a batch of two events in hand that differ at most in the low
\* nibble of the status byte.

\* data bytes: zero, the least positive, the greatest 7-bit byte and the one above
ChannelSamples == {0, 1, 127, 128}

ChannelInit ==
    \E h \in 0..15, c1 \in 0..15, c2 \in 0..15, n \in ChannelSamples, v \in ChannelSamples :
        LoopState("for", <<Datum(16 * h + c1, n, v)>>, <<Datum(16 * h + c2, n, v)>>)

ChannelNext == NextEvent \/ SendMidi \/ SendSemantic

ChannelSpec == ChannelInit /\ [][ChannelNext]_vars

\* what the network sees of a message
Wire(m) == [addr |-> m.addr, args |-> m.args]

\* the messages sent for event k that satisfy want, as the network sees them
WireOf(k, want(_)) ==
    LET own == SelectSeq(sent, LAMBDA m : m.src.id = k /\ want(m))
    IN  [i \in DOMAIN own |-> Wire(own[i])]

IsMidi(m) == m.addr = "/midi"

IsSemantic(m) == m.addr # "/midi"

\* the data d and e differ at most in the low nibble of the status
SameButChannel(d, e) ==
    /\ HighNibble(d.status) = HighNibble(e.status)
    /\ d.note = e.note
    /\ d.velocity = e.velocity

\* C18: two raw data with the same status high nibble, data1 and data2 get the
\* same semantic message (present or not, same address, same arguments); their
\* /midi messages differ in the status argument only, and differ there exactly
\* when the channels differ.
C18_ChannelIgnored ==
    (dispatched = 2 /\ SameButChannel(history[1], history[2])) =>
        /\ WireOf(1, IsSemantic) = WireOf(2, IsSemantic)
        /\ Len(WireOf(1, IsMidi)) = 1
        /\ Len(WireOf(2, IsMidi)) = 1
        /\ WireOf(1, IsMidi)[1].args[2] = WireOf(2, IsMidi)[1].args[2]
        /\ WireOf(1, IsMidi)[1].args[3] = WireOf(2, IsMidi)[1].args[3]
        /\ (WireOf(1, IsMidi)[1].args[1] = WireOf(2, IsMidi)[1].args[1])
              <=> (history[1].status = history[2].status)

\* a note-on on channel 0 and the same note-on on channel 9, both dispatched
C18_Witness ==
    /\ dispatched = 2
    /\ history[1] = Datum(144, 1, 127)
    /\ history[2] = Datum(153, 1, 127)
    /\ Len(sent) = 4
    /\ sent[2].addr = "/note_on"
    /\ sent[4].addr = "/note_on"
    /\ sent[1].args # sent[3].args

---------------------------------------------------------------------------
\* the positions of main() whose statement calls the device or the network
DevicePcs == {"poll", "read", "send_midi", "match"}

\* C19: every poll, every read and every send happens while the device handle
\* is open: nothing is sent before the device is opened, and once the handle
\* is closed main() is over and no step follows.
C19_DeviceUseOnlyWhileOpen ==
    [][ /\ (pc \in DevicePcs /\ pc' # pc) => midi_input = "open"
        /\ sent' # sent => (midi_input = "open" /\ midi_input' = "open")
        /\ pending' # pending => (midi_input = "open" /\ midi_input' = "open")
        /\ midi_input = "none" => sent = << >>
        /\ midi_input' = "closed" => pc' = "exited"
        /\ midi_input # "closed"
      ]_vars

\* main() is over with the handle closed, after it sent messages
C19_Witness == Stopped /\ Len(sent) >= 2 /\ closes = 1

====
